---- MODULE Spec2Model ----
(***************************************************************************)
(* Model of main() of src/main.cpp: the jet-algorithm event display.       *)
(* One process walks through main(): open the document, initialise the     *)
(* two generators, build the map of jet definitions, then for every event  *)
(* classify the particles, add the ghost grid, overlay pileup, and for     *)
(* every jet definition cluster, fill the pT-flow histogram and print one  *)
(* page; finally close the document.                                       *)
(*                                                                         *)
(* Abstractions.  Transverse momenta of particles are powers of ten (or    *)
(* zero) and are represented by their decimal exponent (ptLog); jet pT is  *)
(* an integer number of GeV.  Rapidity and azimuth are integers on an axis *)
(* on which every histogram bin is two units wide.  The generators,        *)
(* the Poisson draw and the clustering engine are external: their results  *)
(* are nondeterministic choices from small sets.                           *)
(***************************************************************************)
EXTENDS Integers, Sequences, FiniteSets, TLC

VARIABLES
    pc,                 \* position in main()
    mu,                 \* global: mean number of pileup interactions
    doAntik_t, dok_t, doCambridge_Aachen,   \* global algorithm switches
    nEvent,             \* Main:numberOfEvents
    docOpens, docCloses,\* number of Print(pdf+"[") / Print(pdf+"]") calls
    pages,              \* pages printed to the document, in order
    hsInit, puInit,     \* "none" | "ok" | "failed": result of pythia.init()
    jetDefs,            \* std::map<TString, JetDefinition>, as its sorted sequence
    inserted,           \* history: algorithms in the order they were inserted
    iEvent,             \* event loop counter
    nValid,             \* history: events so far with next() true and two resonances
    skipped,            \* history: the reasons for which events were skipped so far
    VH, ptcls_hs, ptcls_pu, stbl_ptcls,     \* per-event containers
    n_inel, i_pu,       \* pileup overlay loop
    puLog,              \* history: result of every pythiaPU.next() of the overlay loop
    first,              \* bool first
    defIdx,             \* position of the range-for over jetDefs
    jets,               \* sorted_by_pt(inclusive_jets(pTmin_jet))
    pTflow,             \* TH2D bin contents, under/overflow bins included
    fills               \* history: Fill calls of the current (event, algorithm)

vars == <<pc, mu, doAntik_t, dok_t, doCambridge_Aachen, nEvent, docOpens,
          docCloses, pages, hsInit, puInit, jetDefs, inserted, iEvent, nValid,
          skipped, VH, ptcls_hs, ptcls_pu, stbl_ptcls, n_inel, i_pu, puLog, first,
          defIdx, jets, pTflow, fills>>

(***************************************************************************)
(* Bounds of the model.                                                    *)
(***************************************************************************)
\* bins of the rapidity axis (200 in the program) and of the azimuth axis
\* (157 in the program)
NyBins == 2
NphiBins == 1
\* largest Main:numberOfEvents
MaxEvents == 2
\* largest Poisson draw
MaxPU == 2
\* most jets the clustering engine returns with non-negligible pT
MaxJets == 2

(***************************************************************************)
(* Program constants.                                                      *)
(***************************************************************************)
pTmin_jet == 25
\* log10 of pTghost = 1e-100
pTghostLog == -100
\* log10 of the cut 1e-50 in "if (c.pt() > 1e-50) continue"
PtCutLog == -50
\* the status code of the decayed W and H
ResonanceStatus == -62
\* the value of mu in the source
MuSource == 60
\* ptLog of a particle whose pT is exactly zero: below the exponent of every
\* positive double
ZeroPtLog == 4 * pTghostLog

(***************************************************************************)
(* The two filters of the particle loops.                                  *)
(***************************************************************************)
RECURSIVE SelectFinal(_)
\* the particles of a record that pass "if (not p.isFinal()) continue"
SelectFinal(ev) ==
    IF ev = <<>> THEN <<>>
    ELSE IF Head(ev).status > 0
         THEN <<Head(ev)>> \o SelectFinal(Tail(ev))
         ELSE SelectFinal(Tail(ev))

RECURSIVE SelectVH(_)
\* "if (p.isResonance() && p.status() == -62) VH.push_back(p)"
SelectVH(ev) ==
    IF ev = <<>> THEN <<>>
    ELSE IF Head(ev).isResonance /\ Head(ev).status = ResonanceStatus
         THEN <<Head(ev)>> \o SelectVH(Tail(ev))
         ELSE SelectVH(Tail(ev))

(***************************************************************************)
(* The histogram axes: TAxis::GetBinCenter and TAxis::FindBin.             *)
(***************************************************************************)
yLow == 0 - NyBins
yUp == NyBins
phiLow == 0 - NphiBins

\* every bin is two units wide: bin i covers [low + 2(i-1), low + 2i)
BinCenter(low, i) == low + 2 * (i - 1) + 1

\* 0 is the underflow bin, n + 1 the overflow bin
FindBin(low, n, x) ==
    IF x < low THEN 0
    ELSE IF x >= low + 2 * n THEN n + 1
    ELSE 1 + ((x - low) \div 2)

Bins == (0..(NyBins + 1)) \X (0..(NphiBins + 1))
Cells == (1..NyBins) \X (1..NphiBins)

(***************************************************************************)
(* Particles.  A generator particle has isResonance, status (final iff     *)
(* status > 0), pT (ptLog), rapidity y and azimuth phi.                    *)
(***************************************************************************)
Particle(res, st, pl, yy, ph) ==
    [isResonance |-> res, status |-> st, ptLog |-> pl, y |-> yy, phi |-> ph]

\* particles of the hard-scatter event records
ResW == Particle(TRUE, ResonanceStatus, 2, 0, 0)     \* decayed W or H
ResOther == Particle(TRUE, -22, 2, 0, 0)             \* resonance, other status
Copy62 == Particle(FALSE, ResonanceStatus, 2, 0, 0)  \* status -62, no resonance
Hadron == Particle(FALSE, 1, 2, yLow, phiLow)        \* final, 100 GeV
HadronB == Particle(FALSE, 1, 2, yUp - 1, phiLow + 1) \* final, 100 GeV
ZeroPtHadron == Particle(FALSE, 1, ZeroPtLog, yLow + 1, phiLow + 1) \* final, pT = 0

\* particles of the pileup event records
PUHadron == Particle(FALSE, 1, 1, yUp - 1, phiLow + 1)  \* final, 10 GeV
PUSoft == Particle(FALSE, 1, -60, yLow, phiLow)         \* final, pT = 1e-60
PUParton == Particle(FALSE, -71, 1, 0, 0)               \* not final

\* the event records pythia.next() can leave in pythia.event
HSEvents ==
    { <<>>,
      <<ResW, Hadron>>,                     \* one resonance
      <<ResW, ResOther, Hadron>>,           \* two resonances, one not at -62
      <<ResW, Copy62, Hadron>>,             \* two at -62, one no resonance
      <<ResW, Hadron, ResW, ResW>>,         \* three resonances
      <<ResW, Hadron, ResW>>,               \* a valid event
      <<ResW, ResW, ZeroPtHadron, Hadron, HadronB>> }     \* a valid event

\* the event record pythiaPU.next() leaves in pythiaPU.event
PUEvents ==
    { <<PUParton, PUHadron, PUSoft>> }

\* fastjet::PseudoJet(px, py, pz, e); src is history: where it came from
PseudoJet(p, src) == [ptLog |-> p.ptLog, y |-> p.y, phi |-> p.phi, src |-> src]

RECURSIVE ToPseudoJets(_, _)
ToPseudoJets(ps, src) ==
    IF ps = <<>> THEN <<>>
    ELSE <<PseudoJet(Head(ps), src)>> \o ToPseudoJets(Tail(ps), src)

\* ghost.reset_momentum_PtYPhiM(pTghost, y, phi, 0) at the centre of bin (iy, iphi)
Ghost(iy, iphi) ==
    [ptLog |-> pTghostLog, y |-> BinCenter(yLow, iy),
     phi |-> BinCenter(phiLow, iphi), src |-> "ghost"]

RECURSIVE GhostRow(_, _)
\* inner loop: iphi = from .. NphiBins for a fixed iy
GhostRow(iy, from) ==
    IF from > NphiBins THEN <<>>
    ELSE <<Ghost(iy, from)>> \o GhostRow(iy, from + 1)

RECURSIVE GhostGrid(_)
\* outer loop: iy = from .. NyBins
GhostGrid(from) ==
    IF from > NyBins THEN <<>>
    ELSE GhostRow(from, 1) \o GhostGrid(from + 1)

(***************************************************************************)
(* std::map<TString, JetDefinition>: a sequence of [label, alg] kept       *)
(* sorted by label (TString::operator< compares byte by byte).             *)
(***************************************************************************)
\* first bytes of "Anti-#it{k_{t}} jets, ...", "#it{k_{t}} jets, ..." and
\* "Cambridge-Aachen jets, ..."
LabelAntikt == <<65, 110, 116, 105>>
Labelkt == <<35, 105, 116, 123>>
LabelCambridge == <<67, 97, 109, 98>>

RECURSIVE LexLess(_, _)
LexLess(a, b) ==
    IF b = <<>> THEN FALSE
    ELSE IF a = <<>> THEN TRUE
    ELSE IF Head(a) # Head(b) THEN Head(a) < Head(b)
    ELSE LexLess(Tail(a), Tail(b))

RECURSIVE MapInsert(_, _, _)
\* m[key] = val
MapInsert(m, key, val) ==
    IF m = <<>> THEN <<[label |-> key, alg |-> val]>>
    ELSE IF Head(m).label = key
         THEN <<[label |-> key, alg |-> val]>> \o Tail(m)
    ELSE IF LexLess(key, Head(m).label)
         THEN <<[label |-> key, alg |-> val]>> \o m
    ELSE <<Head(m)>> \o MapInsert(Tail(m), key, val)

\* lines 109-115: the three conditional insertions
BuildJetDefs(a, k, c) ==
    LET m1 == IF a THEN MapInsert(<<>>, LabelAntikt, "antikt") ELSE <<>>
        m2 == IF k THEN MapInsert(m1, Labelkt, "kt") ELSE m1
    IN  IF c THEN MapInsert(m2, LabelCambridge, "cambridge") ELSE m2

\* history: the same insertions in the order they are made
InsertionOrder(a, k, c) ==
    (IF a THEN <<"antikt">> ELSE <<>>) \o (IF k THEN <<"kt">> ELSE <<>>)
    \o (IF c THEN <<"cambridge">> ELSE <<>>)

(***************************************************************************)
(* The clustering engine (fastjet::ClusterSequence), an external black     *)
(* box.  A jet of non-negligible pT is a rapidity interval: it holds every *)
(* particle of the pool lying in it, at least one of them with pT of 1 GeV *)
(* or more; intervals of different jets are disjoint.  E-scheme            *)
(* recombination adds the four-momenta: the jet's pT, in whole GeV, is the *)
(* sum of the pT of its constituents (those below 1 GeV add nothing).      *)
(* Jets made of ghosts alone have negligible pT and never pass the cut, so *)
(* they are left out.                                                      *)
(***************************************************************************)
RECURSIVE Pow10(_)
Pow10(e) == IF e = 0 THEN 1 ELSE 10 * Pow10(e - 1)

\* pT in whole GeV
GeV(p) == IF p.ptLog >= 0 THEN Pow10(p.ptLog) ELSE 0

RECURSIVE JetPt(_, _)
JetPt(pool, cons) ==
    IF cons = <<>> THEN 0
    ELSE GeV(pool[Head(cons)]) + JetPt(pool, Tail(cons))

RECURSIVE IndicesIn(_, _, _, _)
\* the indices i >= from of the pool with lo <= pool[i].y <= hi, ascending
IndicesIn(pool, lo, hi, from) ==
    IF from > Len(pool) THEN <<>>
    ELSE IF lo <= pool[from].y /\ pool[from].y <= hi
         THEN <<from>> \o IndicesIn(pool, lo, hi, from + 1)
         ELSE IndicesIn(pool, lo, hi, from + 1)

HasHard(pool, cons) == \E k \in 1..Len(cons) : pool[cons[k]].ptLog >= 0

\* the rapidities at which the pool has a particle
Rapidities(pool) == {pool[i].y : i \in 1..Len(pool)}

RECURSIVE RawJetSeqs(_, _, _)
\* the sequences of at most k jets over disjoint intervals at or above `from`;
\* an interval begins and ends at a particle
RawJetSeqs(pool, from, k) ==
    IF k = 0 THEN {<<>>}
    ELSE {<<>>} \cup
         UNION { UNION { LET cons == IndicesIn(pool, lo, hi, 1)
                             rests == RawJetSeqs(pool, hi + 1, k - 1)
                         IN  IF HasHard(pool, cons)
                             THEN {<<[pt |-> JetPt(pool, cons), cons |-> cons]>> \o rest :
                                     rest \in rests}
                             ELSE {} :
                         hi \in {y \in Rapidities(pool) : y >= lo} } :
                 lo \in {y \in Rapidities(pool) : y >= from} }

RECURSIVE Reverse(_)
Reverse(s) == IF s = <<>> THEN <<>> ELSE Reverse(Tail(s)) \o <<Head(s)>>

\* what ClusterSequence(stbl_ptcls, jetDef) can come up with, the jets in
\* increasing or in decreasing rapidity
ClusterSequence(pool) ==
    LET up == RawJetSeqs(pool, yLow, MaxJets)
    IN  up \cup {Reverse(r) : r \in up}

RECURSIVE inclusive_jets(_, _)
\* the jets with pt >= ptmin
inclusive_jets(raw, ptmin) ==
    IF raw = <<>> THEN <<>>
    ELSE IF Head(raw).pt >= ptmin
         THEN <<Head(raw)>> \o inclusive_jets(Tail(raw), ptmin)
         ELSE inclusive_jets(Tail(raw), ptmin)

RECURSIVE InsertByPt(_, _)
InsertByPt(sorted, j) ==
    IF sorted = <<>> THEN <<j>>
    ELSE IF j.pt > Head(sorted).pt THEN <<j>> \o sorted
    ELSE <<Head(sorted)>> \o InsertByPt(Tail(sorted), j)

RECURSIVE sorted_by_pt(_)
\* decreasing pt
sorted_by_pt(js) ==
    IF js = <<>> THEN <<>>
    ELSE InsertByPt(sorted_by_pt(SubSeq(js, 1, Len(js) - 1)), js[Len(js)])

(***************************************************************************)
(* The pT-flow histogram (TH2D).                                           *)
(***************************************************************************)
\* TH2D::Reset(): every bin content becomes 0
Reset(h) == [b \in DOMAIN h |-> 0]

\* a Fill that sets the bin content instead of adding to it
FillOverwrites(h, rap, phi, w) ==
    LET b == <<FindBin(yLow, NyBins, rap), FindBin(phiLow, NphiBins, phi)>>
    IN  [h EXCEPT ![b] = w]

\* TH2D::Fill(x, y, w): the content of the bin holding (x, y) grows by w
Fill(h, rap, phi, w) ==
    LET b == <<FindBin(yLow, NyBins, rap), FindBin(phiLow, NphiBins, phi)>>
    IN  [h EXCEPT ![b] = @ + w]

\* "if (c.pt() > 1e-50) continue;"
SkipConstituent(c) == c.ptLog > PtCutLog

RECURSIVE ConstituentFills(_, _, _)
\* inner loop of lines 187-190 for one jet: the Fill calls it makes
ConstituentFills(pool, cons, w) ==
    IF cons = <<>> THEN <<>>
    ELSE IF SkipConstituent(pool[Head(cons)])
         THEN ConstituentFills(pool, Tail(cons), w)
         ELSE <<[idx |-> Head(cons), rap |-> pool[Head(cons)].y,
                 phi |-> pool[Head(cons)].phi, w |-> w]>>
              \o ConstituentFills(pool, Tail(cons), w)

RECURSIVE JetFills(_, _)
\* outer loop of lines 185-191: the Fill calls in the order they are made
JetFills(pool, js) ==
    IF js = <<>> THEN <<>>
    ELSE ConstituentFills(pool, Head(js).cons, Head(js).pt)
         \o JetFills(pool, Tail(js))

RECURSIVE ApplyFills(_, _)
ApplyFills(h, fs) ==
    IF fs = <<>> THEN h
    ELSE ApplyFills(Fill(h, Head(fs).rap, Head(fs).phi, Head(fs).w), Tail(fs))

(***************************************************************************)
(* The state after the globals are initialised and main() is entered: the  *)
(* tunables are whatever the build was given, the histogram is new.        *)
(***************************************************************************)
Init ==
    /\ pc = "open"
    /\ mu \in {0, MuSource}
    /\ doAntik_t \in BOOLEAN
    /\ dok_t \in BOOLEAN
    /\ doCambridge_Aachen \in BOOLEAN
    /\ nEvent \in 0..MaxEvents
    /\ docOpens = 0
    /\ docCloses = 0
    /\ pages = <<>>
    /\ hsInit = "none"
    /\ puInit = "none"
    /\ jetDefs = <<>>
    /\ inserted = <<>>
    /\ iEvent = 0
    /\ nValid = 0
    /\ skipped = {}
    /\ VH = <<>>
    /\ ptcls_hs = <<>>
    /\ ptcls_pu = <<>>
    /\ stbl_ptcls = <<>>
    /\ n_inel = 0
    /\ i_pu = 0
    /\ puLog = <<>>
    /\ first = FALSE
    /\ defIdx = 1
    /\ jets = <<>>
    /\ pTflow = [b \in Bins |-> 0]
    /\ fills = <<>>

config == <<mu, doAntik_t, dok_t, doCambridge_Aachen, nEvent>>
locals == <<VH, ptcls_hs, ptcls_pu, stbl_ptcls, n_inel, i_pu, puLog, first,
            defIdx, jets, fills>>

\* line 90: can->Print(pdf + "[")
OpenDocument ==
    /\ pc = "open"
    /\ docOpens' = docOpens + 1
    /\ pc' = "initHS"
    /\ UNCHANGED <<config, docCloses, pages, hsInit, puInit, jetDefs, inserted,
                   iEvent, nValid, skipped, locals, pTflow>>

\* lines 93-100: pythia.init(), its result ignored
InitHardScatter ==
    /\ pc = "initHS"
    /\ \E ok \in BOOLEAN : hsInit' = IF ok THEN "ok" ELSE "failed"
    /\ pc' = "initPU"
    /\ UNCHANGED <<config, docOpens, docCloses, pages, puInit, jetDefs,
                   inserted, iEvent, nValid, skipped, locals, pTflow>>

\* a pileup initialisation without the test of mu
InitPileupAlways ==
    /\ pc = "initPU"
    /\ \E ok \in BOOLEAN : puInit' = IF ok THEN "ok" ELSE "failed"
    /\ pc' = "setup"
    /\ UNCHANGED <<config, docOpens, docCloses, pages, hsInit, jetDefs,
                   inserted, iEvent, nValid, skipped, locals, pTflow>>

\* lines 103-106: if (mu > 0) pythiaPU.init(), its result ignored
InitPileup ==
    /\ pc = "initPU"
    /\ IF mu > 0
       THEN \E ok \in BOOLEAN : puInit' = IF ok THEN "ok" ELSE "failed"
       ELSE puInit' = puInit
    /\ pc' = "setup"
    /\ UNCHANGED <<config, docOpens, docCloses, pages, hsInit, jetDefs,
                   inserted, iEvent, nValid, skipped, locals, pTflow>>

\* lines 109-118
SetupJetDefs ==
    /\ pc = "setup"
    /\ jetDefs' = BuildJetDefs(doAntik_t, dok_t, doCambridge_Aachen)
    /\ inserted' = InsertionOrder(doAntik_t, dok_t, doCambridge_Aachen)
    /\ iEvent' = 0
    /\ pc' = "loop"
    /\ UNCHANGED <<config, docOpens, docCloses, pages, hsInit, puInit, nValid, skipped,
                   locals, pTflow>>

\* the containers declared inside the loop body, before and after an iteration
ClearLocals ==
    /\ VH' = <<>>
    /\ ptcls_hs' = <<>>
    /\ ptcls_pu' = <<>>
    /\ stbl_ptcls' = <<>>
    /\ n_inel' = 0
    /\ i_pu' = 0
    /\ puLog' = <<>>
    /\ defIdx' = 1
    /\ jets' = <<>>
    /\ fills' = <<>>

\* whether pythia.next() can produce an event: not without a successful init
CanGenerate(init) == init = "ok"

\* lines 119-121: if (!pythia.next()) continue;
NextFails ==
    /\ pc = "loop"
    /\ iEvent < nEvent
    /\ iEvent' = iEvent + 1
    /\ skipped' = skipped \cup {"nonext"}
    /\ ClearLocals
    /\ UNCHANGED <<pc, config, docOpens, docCloses, pages, hsInit, puInit,
                   jetDefs, inserted, nValid, first, pTflow>>

\* a validity check that lets more than two resonances through
ValidVHAtLeastTwo(vh) == Len(vh) >= 2

\* line 136: "Should not happen!" if (VH.size() != 2) continue;
ValidVH(vh) == Len(vh) = 2

\* lines 119-136: pythia.next() succeeds; classify; if (VH.size() != 2) continue;
NextEvent ==
    /\ pc = "loop"
    /\ iEvent < nEvent
    /\ CanGenerate(hsInit)
    /\ \E event \in HSEvents :
         LET vh == SelectVH(event)
             hs == SelectFinal(event)
         IN  /\ IF ValidVH(vh)
                THEN /\ VH' = vh
                     /\ ptcls_hs' = hs
                     /\ stbl_ptcls' = ToPseudoJets(hs, "hs")
                     /\ pc' = "ghosts"
                     /\ UNCHANGED <<iEvent, ptcls_pu, n_inel, i_pu, puLog,
                                    defIdx, jets, fills>>
                ELSE /\ iEvent' = iEvent + 1
                     /\ ClearLocals
                     /\ pc' = pc
             \* history, by the number of resonances of the record itself
             /\ nValid' = IF Len(SelectVH(event)) = 2 THEN nValid + 1 ELSE nValid
             /\ skipped' = IF Len(SelectVH(event)) = 2 THEN skipped
                            ELSE skipped \cup {"badVH"}
    /\ UNCHANGED <<config, docOpens, docCloses, pages, hsInit, puInit,
                   jetDefs, inserted, first, pTflow>>

\* lines 150-160
AddGhosts ==
    /\ pc = "ghosts"
    /\ stbl_ptcls' = stbl_ptcls \o GhostGrid(1)
    /\ pc' = "poisson"
    /\ UNCHANGED <<config, docOpens, docCloses, pages, hsInit, puInit,
                   jetDefs, inserted, iEvent, nValid, skipped, VH, ptcls_hs, ptcls_pu,
                   n_inel, i_pu, puLog, first, defIdx, jets, fills, pTflow>>

\* TRandom::Poisson(mean): 0 when mean <= 0, otherwise any count
Poisson(mean) == IF mean <= 0 THEN {0} ELSE 0..MaxPU

\* lines 163-165: n_inel = gRandom->Poisson(mu); i_pu = 0
DrawPileupCount ==
    /\ pc = "poisson"
    /\ n_inel' \in Poisson(mu)
    /\ i_pu' = 0
    /\ pc' = "overlay"
    /\ UNCHANGED <<config, docOpens, docCloses, pages, hsInit, puInit,
                   jetDefs, inserted, iEvent, nValid, skipped, VH, ptcls_hs, ptcls_pu,
                   stbl_ptcls, puLog, first, defIdx, jets, fills, pTflow>>

\* a failed pileup draw that ends the overlay (break instead of continue)
PileupNextFailsBreaks ==
    /\ pc = "overlay"
    /\ i_pu < n_inel
    /\ puLog' = Append(puLog, [ok |-> FALSE, event |-> <<>>])
    /\ i_pu' = n_inel
    /\ UNCHANGED <<pc, config, docOpens, docCloses, pages, hsInit, puInit,
                   jetDefs, inserted, iEvent, nValid, skipped, VH, ptcls_hs,
                   ptcls_pu, stbl_ptcls, n_inel, first, defIdx, jets, fills,
                   pTflow>>

\* lines 165-166: if (!pythiaPU.next()) continue;
PileupNextFails ==
    /\ pc = "overlay"
    /\ i_pu < n_inel
    /\ puLog' = Append(puLog, [ok |-> FALSE, event |-> <<>>])
    /\ i_pu' = i_pu + 1
    /\ UNCHANGED <<pc, config, docOpens, docCloses, pages, hsInit, puInit,
                   jetDefs, inserted, iEvent, nValid, skipped, VH, ptcls_hs, ptcls_pu,
                   stbl_ptcls, n_inel, first, defIdx, jets, fills, pTflow>>

\* lines 167-173: what one successful pileup event adds to ptcls_pu
OverlayParticles(pu, event) == pu \o SelectFinal(event)

\* lines 165-174: pythiaPU.next() succeeds, its final particles are overlaid
PileupNext ==
    /\ pc = "overlay"
    /\ i_pu < n_inel
    /\ CanGenerate(puInit)
    /\ \E event \in PUEvents :
         /\ puLog' = Append(puLog, [ok |-> TRUE, event |-> event])
         /\ ptcls_pu' = OverlayParticles(ptcls_pu, event)
         /\ stbl_ptcls' = stbl_ptcls \o ToPseudoJets(SelectFinal(event), "pu")
    /\ i_pu' = i_pu + 1
    /\ UNCHANGED <<pc, config, docOpens, docCloses, pages, hsInit, puInit,
                   jetDefs, inserted, iEvent, nValid, skipped, VH, ptcls_hs, n_inel,
                   first, defIdx, jets, fills, pTflow>>

\* lines 165, 176-179: the overlay loop ends; bool first = true; range-for begins
BeginAlgorithms ==
    /\ pc = "overlay"
    /\ i_pu >= n_inel
    /\ first' = TRUE
    /\ defIdx' = 1
    \* i_pu goes out of scope and n_inel is not read again
    /\ i_pu' = 0
    /\ n_inel' = 0
    /\ puLog' = <<>>
    /\ pc' = "algs"
    /\ UNCHANGED <<config, docOpens, docCloses, pages, hsInit, puInit,
                   jetDefs, inserted, iEvent, nValid, skipped, VH, ptcls_hs,
                   ptcls_pu, stbl_ptcls, jets, fills, pTflow>>

\* lines 179-183: the next jet definition; cluster; jets above pTmin_jet,
\* sorted; pTflow->Reset()
Cluster ==
    /\ pc = "algs"
    /\ defIdx <= Len(jetDefs)
    /\ jets' \in {sorted_by_pt(inclusive_jets(raw, pTmin_jet)) :
                    raw \in ClusterSequence(stbl_ptcls)}
    /\ fills' = <<>>
    /\ pTflow' = Reset(pTflow)
    /\ pc' = "fill"
    /\ UNCHANGED <<config, docOpens, docCloses, pages, hsInit, puInit,
                   jetDefs, inserted, iEvent, nValid, skipped, VH, ptcls_hs, ptcls_pu,
                   stbl_ptcls, n_inel, i_pu, puLog, first, defIdx>>

\* lines 185-191: both loops
FillFlow ==
    /\ pc = "fill"
    /\ fills' = JetFills(stbl_ptcls, jets)
    /\ pTflow' = ApplyFills(pTflow, JetFills(stbl_ptcls, jets))
    /\ pc' = "draw"
    /\ UNCHANGED <<config, docOpens, docCloses, pages, hsInit, puInit,
                   jetDefs, inserted, iEvent, nValid, skipped, VH, ptcls_hs, ptcls_pu,
                   stbl_ptcls, n_inel, i_pu, puLog, first, defIdx, jets>>

\* lines 192-255: draw the page, legend if (first), first = false, Print(pdf)
DrawPage ==
    /\ pc = "draw"
    /\ pages' = Append(pages, [ev |-> iEvent, alg |-> jetDefs[defIdx].alg,
                               legend |-> first])
    /\ first' = FALSE
    /\ defIdx' = defIdx + 1
    \* clustSeq and jets go out of scope with the body of the range-for
    /\ jets' = <<>>
    /\ fills' = <<>>
    /\ pc' = "algs"
    /\ UNCHANGED <<config, docOpens, docCloses, hsInit, puInit, jetDefs,
                   inserted, iEvent, nValid, skipped, VH, ptcls_hs, ptcls_pu,
                   stbl_ptcls, n_inel, i_pu, puLog, pTflow>>

\* lines 179, 256-258, 119: the range-for is over; ++iEvent
EndEvent ==
    /\ pc = "algs"
    /\ defIdx > Len(jetDefs)
    /\ iEvent' = iEvent + 1
    /\ ClearLocals
    /\ pc' = "loop"
    /\ UNCHANGED <<config, docOpens, docCloses, pages, hsInit, puInit,
                   jetDefs, inserted, nValid, skipped, first, pTflow>>

\* line 119: iEvent < nEvent fails
LeaveLoop ==
    /\ pc = "loop"
    /\ iEvent >= nEvent
    /\ pc' = "close"
    /\ UNCHANGED <<config, docOpens, docCloses, pages, hsInit, puInit,
                   jetDefs, inserted, iEvent, nValid, skipped, locals, pTflow>>

\* a main() that returns without closing the document
CloseDocumentForgotten ==
    /\ pc = "close"
    /\ pc' = "done"
    /\ UNCHANGED <<config, docOpens, docCloses, pages, hsInit, puInit,
                   jetDefs, inserted, iEvent, nValid, skipped, locals, pTflow>>

\* line 261: can->Print(pdf + "]"); return 0
CloseDocument ==
    /\ pc = "close"
    /\ docCloses' = docCloses + 1
    /\ pc' = "done"
    /\ UNCHANGED <<config, docOpens, pages, hsInit, puInit, jetDefs, inserted,
                   iEvent, nValid, skipped, locals, pTflow>>

Next ==
    \/ OpenDocument
    \/ InitHardScatter
    \/ InitPileup
    \/ SetupJetDefs
    \/ NextFails
    \/ NextEvent
    \/ AddGhosts
    \/ DrawPileupCount
    \/ PileupNextFails
    \/ PileupNext
    \/ BeginAlgorithms
    \/ Cluster
    \/ FillFlow
    \/ DrawPage
    \/ EndEvent
    \/ LeaveLoop
    \/ CloseDocument

Spec == Init /\ [][Next]_vars

\* where main() is: every step of Next changes it
position == <<pc, iEvent, i_pu, defIdx>>

\* main() has not returned and moves on
Running ==
    /\ pc # "done"
    /\ pc' \in {"initHS", "initPU", "setup", "loop", "ghosts", "poisson",
                "overlay", "algs", "fill", "draw", "close", "done"}
    /\ iEvent' \in {iEvent, iEvent + 1}
    /\ i_pu' \in {0, i_pu, i_pu + 1}
    /\ defIdx' \in {1, defIdx, defIdx + 1}

\* main() is one sequential thread: until it returns it takes its next step
FairSpec == Init /\ [][Next]_vars /\ WF_position(Running)

(***************************************************************************)
(* Definitions used to state the properties.                               *)
(***************************************************************************)
\* the number of algorithm switches that are on
NEnabled ==
    (IF doAntik_t THEN 1 ELSE 0) + (IF dok_t THEN 1 ELSE 0)
    + (IF doCambridge_Aachen THEN 1 ELSE 0)

RECURSIVE LogFinals(_)
\* the final-state particles of the pileup calls that succeeded, in call order
LogFinals(log) ==
    IF log = <<>> THEN <<>>
    ELSE (IF Head(log).ok THEN SelectFinal(Head(log).event) ELSE <<>>)
         \o LogFinals(Tail(log))

\* the bin a recorded Fill call lands in
BinOf(f) == <<FindBin(yLow, NyBins, f.rap), FindBin(phiLow, NphiBins, f.phi)>>

\* the recorded Fill calls that land in bin b
FillsInto(b) == {i \in 1..Len(fills) : BinOf(fills[i]) = b}

RECURSIVE SumInto(_, _)
\* the sum of the weights of the Fill calls i..Len(fills) that land in bin b
SumInto(b, i) ==
    IF i > Len(fills) THEN 0
    ELSE (IF BinOf(fills[i]) = b THEN fills[i].w ELSE 0) + SumInto(b, i + 1)

LastInto(b) == CHOOSE i \in FillsInto(b) : \A j \in FillsInto(b) : j <= i

\* the jets that hold the ghost probe sitting at the centre of a cell
Owners(cell) ==
    {j \in 1..Len(jets) :
       \E k \in 1..Len(jets[j].cons) :
          LET c == stbl_ptcls[jets[j].cons[k]]
          IN  /\ c.src = "ghost"
              /\ c.y = BinCenter(yLow, cell[1])
              /\ c.phi = BinCenter(phiLow, cell[2])}

\* the constituents of the retained jets, as <<jet, position>> pairs
Constituents ==
    {jk \in (1..Len(jets)) \X (1..Len(stbl_ptcls)) :
       jk[2] <= Len(jets[jk[1]].cons)}

ConstituentAt(jk) == stbl_ptcls[jets[jk[1]].cons[jk[2]]]

(***************************************************************************)
(* C1.  After every completed event, and at the end of the run, the number *)
(* of pages printed is the number of valid events (next() true and exactly *)
(* two resonances at status -62) times the number of enabled algorithms;   *)
(* skipped events add no page, and the loop runs through all nEvent events.*)
(***************************************************************************)
C1_PageCount ==
    /\ pc \in {"loop", "close", "done"} => Len(pages) = nValid * NEnabled
    /\ pc \in {"close", "done"} => iEvent = nEvent

\* a run whose first event had the wrong number of resonances and whose
\* second event was valid and gave two pages
C1_Witness ==
    /\ pc = "done"
    /\ iEvent = 2
    /\ nValid = 1
    /\ skipped = {"badVH"}
    /\ Len(pages) = 2
    /\ pages[1].ev = 1

(***************************************************************************)
(* C2.  Pages come event by event, and within every event the algorithms   *)
(* appear in the order in which the jet definitions were inserted.         *)
(***************************************************************************)
C2_InsertionOrder ==
    /\ \A i \in 1..(Len(pages) - 1) : pages[i].ev <= pages[i + 1].ev
    /\ pc = "done" =>
         \A i \in 1..Len(pages) :
            /\ Len(inserted) > 0
            /\ pages[i].alg = inserted[((i - 1) % Len(inserted)) + 1]

(***************************************************************************)
(* C3.  No state has a generator whose initialisation failed together with *)
(* an opened document or a printed page.                                   *)
(***************************************************************************)
C3_NoDocumentAfterFailedInit ==
    ~ ( /\ hsInit = "failed" \/ puInit = "failed"
        /\ docOpens > 0 \/ Len(pages) > 0 )

(***************************************************************************)
(* C4.  The document is opened once, before the first event is requested,  *)
(* and closed once, after the last event; pages are printed only between   *)
(* the two; a run that has opened the document eventually closes it.       *)
(***************************************************************************)
C4_State ==
    /\ docOpens <= 1
    /\ docCloses <= docOpens
    /\ pc \in {"loop", "ghosts", "poisson", "overlay", "algs", "fill", "draw"}
         => docOpens = 1 /\ docCloses = 0
    /\ Len(pages) > 0 => docOpens = 1
    /\ docCloses = 1 => pc = "done" /\ iEvent = nEvent

C4_Step ==
    /\ pages' # pages => docOpens = 1 /\ docCloses = 0 /\ docCloses' = 0
    /\ iEvent' # iEvent => docOpens = 1 /\ docCloses = 0

C4_OpenedOnceClosedOnce ==
    /\ []C4_State
    /\ [][C4_Step]_vars
    /\ (docOpens = 1) ~> (docCloses = 1)

\* a closed document of a run that skipped an event and printed pages
C4_Witness ==
    /\ pc = "done"
    /\ docOpens = 1
    /\ docCloses = 1
    /\ skipped # {}
    /\ Len(pages) > 0

(***************************************************************************)
(* C5.  The histogram is all zero right before the jets are applied, and   *)
(* when the page is drawn every cell holds zero if no jet owns the ghost   *)
(* at its centre and otherwise the pT of the one jet that owns it.         *)
(***************************************************************************)
C5_CellIsOwnerPt ==
    /\ pc = "fill" => \A b \in Bins : pTflow[b] = 0
    /\ pc = "draw" =>
         \A cell \in Cells :
            /\ Cardinality(Owners(cell)) <= 1
            /\ Owners(cell) = {} => pTflow[cell] = 0
            /\ \A j \in Owners(cell) : pTflow[cell] = jets[j].pt

(***************************************************************************)
(* C6.  Only ghost constituents deposit: every Fill call comes from a      *)
(* ghost, and every ghost constituent of a retained jet makes a Fill call. *)
(***************************************************************************)
C6_OnlyGhostsDeposit ==
    pc = "draw" =>
      /\ \A i \in 1..Len(fills) : stbl_ptcls[fills[i].idx].src = "ghost"
      /\ \A jk \in Constituents :
            ConstituentAt(jk).src = "ghost" =>
              \E i \in 1..Len(fills) :
                 /\ fills[i].idx = jets[jk[1]].cons[jk[2]]
                 /\ fills[i].w = jets[jk[1]].pt

(***************************************************************************)
(* C7.  The overlay asks the pileup generator once per drawn interaction,  *)
(* n_inel times in all, whether or not calls fail, and the pileup pool is  *)
(* exactly the final-state particles of the calls that succeeded.          *)
(***************************************************************************)
C7_Step ==
    /\ pc = "overlay" =>
         /\ Len(puLog) = i_pu
         /\ i_pu <= n_inel
         /\ ptcls_pu = LogFinals(puLog)
    /\ pc = "overlay" /\ pc' # "overlay" =>
         /\ Len(puLog) = n_inel
         /\ pc' = "algs"
         /\ ptcls_pu' = LogFinals(puLog)

C7_PileupOverlay == [][C7_Step]_vars

\* two interactions drawn, the first call failed: the pool holds the final
\* particles of the second alone
C7_Witness ==
    /\ pc = "overlay"
    /\ n_inel = 2
    /\ i_pu = 2
    /\ Len(puLog) = 2
    /\ ~puLog[1].ok
    /\ puLog[2].ok
    /\ ptcls_pu = <<PUHadron, PUSoft>>

(***************************************************************************)
(* C8.  With mu = 0 the pileup subset is always empty, the pileup          *)
(* generator is never initialised and never asked for an event.            *)
(***************************************************************************)
C8_NoPileupAtMuZero ==
    mu = 0 =>
      /\ ptcls_pu = <<>>
      /\ puInit = "none"
      /\ puLog = <<>>
      /\ n_inel = 0
      /\ \A i \in 1..Len(stbl_ptcls) : stbl_ptcls[i].src # "pu"

\* the second event of a run with mu = 0 is being drawn
C8_Witness ==
    /\ mu = 0
    /\ pc = "draw"
    /\ iEvent = 1
    /\ Len(pages) > 0

(***************************************************************************)
(* C9.  At most one page of the run carries the legend: the first one.     *)
(***************************************************************************)
C9_LegendOnFirstPageOnly ==
    \A i \in 1..Len(pages) : pages[i].legend => i = 1

====
